---- MODULE Spec2Model ----
(***************************************************************************)
(* Game Boy Printer protocol definitions                                   *)
(* (research/gbp_dev/gameboy_printer_protocol.h): the protocol constants,  *)
(* the bit macros, the per-flag status macros, the status record and       *)
(* gbp_status_byte, with C's integer semantics (operands promoted to int,  *)
(* results converted to uint8_t on assignment and on return).              *)
(***************************************************************************)
EXTENDS Integers, Sequences, FiniteSets, TLC

(* ------------------------------------------------------------------ *)
(* C integer arithmetic                                                 *)
(* ------------------------------------------------------------------ *)

\* Width of C's int on the target; the macros compute in int after promotion.
IntWidth == 16

\* Width of uint8_t.
UINT8_WIDTH == 8

IntMod == 2 ^ IntWidth

\* Two's complement representation of an int as an unsigned bit pattern.
ToUnsigned(v) == v % IntMod

\* The int denoted by a bit pattern.
ToSigned(u) == IF u >= 2 ^ (IntWidth - 1) THEN u - IntMod ELSE u

\* Conversion of an int to uint8_t (assignment to a status byte, return).
ToUint8(v) == v % (2 ^ UINT8_WIDTH)

RECURSIVE AndBits(_, _, _)
AndBits(a, b, n) ==
    IF n = 0 THEN 0
    ELSE ((a % 2) * (b % 2)) + 2 * AndBits(a \div 2, b \div 2, n - 1)

RECURSIVE OrBits(_, _, _)
OrBits(a, b, n) ==
    IF n = 0 THEN 0
    ELSE (IF (a % 2) + (b % 2) > 0 THEN 1 ELSE 0)
         + 2 * OrBits(a \div 2, b \div 2, n - 1)

RECURSIVE NotBits(_, _)
NotBits(a, n) ==
    IF n = 0 THEN 0
    ELSE (1 - (a % 2)) + 2 * NotBits(a \div 2, n - 1)

\* C operators  &  |  ~  <<  on int.
BitAnd(a, b) == ToSigned(AndBits(ToUnsigned(a), ToUnsigned(b), IntWidth))
BitOr(a, b)  == ToSigned(OrBits(ToUnsigned(a), ToUnsigned(b), IntWidth))
BitNot(a)    == ToSigned(NotBits(ToUnsigned(a), IntWidth))
\* a << n for a >= 0 and a * 2^n representable (every use here: a in 0..1, n in 0..7).
Shl(a, n)    == a * (2 ^ n)
\* C's relational > yields int 1 or 0.
Gt(a, b)     == IF a > b THEN 1 ELSE 0

(* ------------------------------------------------------------------ *)
(* Protocol constants                                                   *)
(* ------------------------------------------------------------------ *)

GBP_SYNC_WORD_0 == 136
GBP_SYNC_WORD_1 == 51
\* Variant: the two bytes in the opposite order.
GBP_SYNC_WORD_swapped == GBP_SYNC_WORD_1 * 256 + GBP_SYNC_WORD_0
GBP_SYNC_WORD == 34867

GBP_COMMAND_INIT == 1
GBP_COMMAND_PRINT == 2
GBP_COMMAND_DATA == 4
\* Variant: the value of the line above copied.
GBP_COMMAND_BREAK_dup == GBP_COMMAND_DATA
GBP_COMMAND_BREAK == 8
GBP_COMMAND_INQUIRY == 15

GBP_STATUS_BIT_LOWBAT == 7
GBP_STATUS_BIT_ER2 == 6
GBP_STATUS_BIT_ER1 == 5
GBP_STATUS_BIT_ER0 == 4
GBP_STATUS_BIT_UNTRAN == 3
GBP_STATUS_BIT_FULL == 2
GBP_STATUS_BIT_BUSY == 1
GBP_STATUS_BIT_SUM == 0

GBP_STATUS_MASK_LOWBAT == Shl(1, 7)
\* Variant: the shift count of the next line.
GBP_STATUS_MASK_ER2_copied == Shl(1, 5)
GBP_STATUS_MASK_ER2 == Shl(1, 6)
GBP_STATUS_MASK_ER1 == Shl(1, 5)
GBP_STATUS_MASK_ER0 == Shl(1, 4)
GBP_STATUS_MASK_UNTRAN == Shl(1, 3)
GBP_STATUS_MASK_FULL == Shl(1, 2)
GBP_STATUS_MASK_BUSY == Shl(1, 1)
GBP_STATUS_MASK_SUM == Shl(1, 0)

(* ------------------------------------------------------------------ *)
(* Macros                                                               *)
(* ------------------------------------------------------------------ *)

\* Variant: addition in place of bitwise or.
gpb_setBit_add(X, BITPOS) == X + Shl(1, BITPOS)
gpb_setBit(X, BITPOS) == BitOr(X, Shl(1, BITPOS))

\* Variant: the complement of the mask is missing.
gpb_unsetBit_nocompl(X, BITPOS) == BitAnd(X, Shl(1, BITPOS))
gpb_unsetBit(X, BITPOS) == BitAnd(X, BitNot(Shl(1, BITPOS)))

\* Variant: the masked value is returned without the comparison.
gpb_getBit_raw(X, BITPOS) == BitAnd(X, Shl(1, BITPOS))
gpb_getBit(X, BITPOS) == Gt(BitAnd(X, Shl(1, BITPOS)), 0)

\* X = SET ? gpb_setBit(X, BIT) : gpb_unsetBit(X, BIT), X a uint8_t lvalue:
\* each operator gives the value X holds after the statement.
gpb_status_bit_update_low_battery(X, SET) ==
    ToUint8(IF SET THEN gpb_setBit(X, GBP_STATUS_BIT_LOWBAT)
                   ELSE gpb_unsetBit(X, GBP_STATUS_BIT_LOWBAT))
gpb_status_bit_update_other_error(X, SET) ==
    ToUint8(IF SET THEN gpb_setBit(X, GBP_STATUS_BIT_ER2)
                   ELSE gpb_unsetBit(X, GBP_STATUS_BIT_ER2))
\* Variant: paper_jam updated at the position of other_error.
gpb_status_bit_update_paper_jam_er2(X, SET) ==
    ToUint8(IF SET THEN gpb_setBit(X, GBP_STATUS_BIT_ER2)
                   ELSE gpb_unsetBit(X, GBP_STATUS_BIT_ER2))
gpb_status_bit_update_paper_jam(X, SET) ==
    ToUint8(IF SET THEN gpb_setBit(X, GBP_STATUS_BIT_ER1)
                   ELSE gpb_unsetBit(X, GBP_STATUS_BIT_ER1))
gpb_status_bit_update_packet_error(X, SET) ==
    ToUint8(IF SET THEN gpb_setBit(X, GBP_STATUS_BIT_ER0)
                   ELSE gpb_unsetBit(X, GBP_STATUS_BIT_ER0))
gpb_status_bit_update_unprocessed_data(X, SET) ==
    ToUint8(IF SET THEN gpb_setBit(X, GBP_STATUS_BIT_UNTRAN)
                   ELSE gpb_unsetBit(X, GBP_STATUS_BIT_UNTRAN))
gpb_status_bit_update_print_buffer_full(X, SET) ==
    ToUint8(IF SET THEN gpb_setBit(X, GBP_STATUS_BIT_FULL)
                   ELSE gpb_unsetBit(X, GBP_STATUS_BIT_FULL))
gpb_status_bit_update_printer_busy(X, SET) ==
    ToUint8(IF SET THEN gpb_setBit(X, GBP_STATUS_BIT_BUSY)
                   ELSE gpb_unsetBit(X, GBP_STATUS_BIT_BUSY))
gpb_status_bit_update_checksum_error(X, SET) ==
    ToUint8(IF SET THEN gpb_setBit(X, GBP_STATUS_BIT_SUM)
                   ELSE gpb_unsetBit(X, GBP_STATUS_BIT_SUM))

gpb_status_bit_getbit_low_battery(X)       == gpb_getBit(X, GBP_STATUS_BIT_LOWBAT)
gpb_status_bit_getbit_other_error(X)       == gpb_getBit(X, GBP_STATUS_BIT_ER2)
gpb_status_bit_getbit_paper_jam(X)         == gpb_getBit(X, GBP_STATUS_BIT_ER1)
gpb_status_bit_getbit_packet_error(X)      == gpb_getBit(X, GBP_STATUS_BIT_ER0)
gpb_status_bit_getbit_unprocessed_data(X)  == gpb_getBit(X, GBP_STATUS_BIT_UNTRAN)
gpb_status_bit_getbit_print_buffer_full(X) == gpb_getBit(X, GBP_STATUS_BIT_FULL)
gpb_status_bit_getbit_printer_busy(X)      == gpb_getBit(X, GBP_STATUS_BIT_BUSY)
gpb_status_bit_getbit_checksum_error(X)    == gpb_getBit(X, GBP_STATUS_BIT_SUM)

(* ------------------------------------------------------------------ *)
(* Status record                                                        *)
(* ------------------------------------------------------------------ *)

\* Field names of struct gbp_printer_status_t.
Flags == {"low_battery", "paper_jam", "other_error", "packet_error",
          "unprocessed_data", "print_buffer_full", "printer_busy",
          "checksum_error"}

gbp_printer_status_t == [Flags -> BOOLEAN]

\* The macro named after a field, selected by the field's name.
StatusBitUpdate(f, X, SET) ==
    CASE f = "low_battery"       -> gpb_status_bit_update_low_battery(X, SET)
      [] f = "other_error"       -> gpb_status_bit_update_other_error(X, SET)
      [] f = "paper_jam"         -> gpb_status_bit_update_paper_jam(X, SET)
      [] f = "packet_error"      -> gpb_status_bit_update_packet_error(X, SET)
      [] f = "unprocessed_data"  -> gpb_status_bit_update_unprocessed_data(X, SET)
      [] f = "print_buffer_full" -> gpb_status_bit_update_print_buffer_full(X, SET)
      [] f = "printer_busy"      -> gpb_status_bit_update_printer_busy(X, SET)
      [] f = "checksum_error"    -> gpb_status_bit_update_checksum_error(X, SET)

StatusBitGet(f, X) ==
    CASE f = "low_battery"       -> gpb_status_bit_getbit_low_battery(X)
      [] f = "other_error"       -> gpb_status_bit_getbit_other_error(X)
      [] f = "paper_jam"         -> gpb_status_bit_getbit_paper_jam(X)
      [] f = "packet_error"      -> gpb_status_bit_getbit_packet_error(X)
      [] f = "unprocessed_data"  -> gpb_status_bit_getbit_unprocessed_data(X)
      [] f = "print_buffer_full" -> gpb_status_bit_getbit_print_buffer_full(X)
      [] f = "printer_busy"      -> gpb_status_bit_getbit_printer_busy(X)
      [] f = "checksum_error"    -> gpb_status_bit_getbit_checksum_error(X)

\* (flag ? 1 : 0)
Cond01(b) == IF b THEN 1 ELSE 0

(* ------------------------------------------------------------------ *)
(* State                                                                *)
(* ------------------------------------------------------------------ *)

VARIABLES
    X,              \* uint8_t status byte maintained with the update macros
    printer_status, \* struct gbp_printer_status_t
    ret,            \* uint8_t returned by the last gbp_status_byte call
    got,            \* what the eight getbit macros gave on ret
    pc,             \* "idle": record written since the last call;
                    \* "returned": ret is the result for the current record;
                    \* "read": ret has been read back with the getbit macros
    u1, u2,         \* the last two update statements (u2 the latest)
    x, pos,         \* operands of the generic bit macros
    op, r           \* generic bit macro last evaluated and its value

vars == <<X, printer_status, ret, got, pc, u1, u2, x, pos, op, r>>

Byte == 0 .. (2 ^ UINT8_WIDTH) - 1
BitPositions == 0 .. UINT8_WIDTH - 1

AllFalse == [f \in Flags |-> FALSE]
NoGot == [f \in Flags |-> 0]
NoUpdate == [flag |-> "none", set |-> FALSE, before |-> 0]

(* ------------------------------------------------------------------ *)
(* gbp_status_byte                                                      *)
(* ------------------------------------------------------------------ *)

\* Variant: paper_jam and other_error at each other's position
\* (the order of the fields in the struct).
gbp_status_byte_structorder(s) ==
    ToUint8(
      BitOr(BitOr(BitOr(BitOr(BitOr(BitOr(BitOr(
        Shl(Cond01(s.low_battery), GBP_STATUS_BIT_LOWBAT),
        Shl(Cond01(s.paper_jam), GBP_STATUS_BIT_ER2)),
        Shl(Cond01(s.other_error), GBP_STATUS_BIT_ER1)),
        Shl(Cond01(s.packet_error), GBP_STATUS_BIT_ER0)),
        Shl(Cond01(s.unprocessed_data), GBP_STATUS_BIT_UNTRAN)),
        Shl(Cond01(s.print_buffer_full), GBP_STATUS_BIT_FULL)),
        Shl(Cond01(s.printer_busy), GBP_STATUS_BIT_BUSY)),
        Shl(Cond01(s.checksum_error), GBP_STATUS_BIT_SUM)))

\* Variant: printer_busy shifted by the position of the line above.
gbp_status_byte_busyfull(s) ==
    ToUint8(
      BitOr(BitOr(BitOr(BitOr(BitOr(BitOr(BitOr(
        Shl(Cond01(s.low_battery), GBP_STATUS_BIT_LOWBAT),
        Shl(Cond01(s.other_error), GBP_STATUS_BIT_ER2)),
        Shl(Cond01(s.paper_jam), GBP_STATUS_BIT_ER1)),
        Shl(Cond01(s.packet_error), GBP_STATUS_BIT_ER0)),
        Shl(Cond01(s.unprocessed_data), GBP_STATUS_BIT_UNTRAN)),
        Shl(Cond01(s.print_buffer_full), GBP_STATUS_BIT_FULL)),
        Shl(Cond01(s.printer_busy), GBP_STATUS_BIT_FULL)),
        Shl(Cond01(s.checksum_error), GBP_STATUS_BIT_SUM)))

gbp_status_byte(s) ==
    ToUint8(
      BitOr(BitOr(BitOr(BitOr(BitOr(BitOr(BitOr(
        Shl(Cond01(s.low_battery), GBP_STATUS_BIT_LOWBAT),
        Shl(Cond01(s.other_error), GBP_STATUS_BIT_ER2)),
        Shl(Cond01(s.paper_jam), GBP_STATUS_BIT_ER1)),
        Shl(Cond01(s.packet_error), GBP_STATUS_BIT_ER0)),
        Shl(Cond01(s.unprocessed_data), GBP_STATUS_BIT_UNTRAN)),
        Shl(Cond01(s.print_buffer_full), GBP_STATUS_BIT_FULL)),
        Shl(Cond01(s.printer_busy), GBP_STATUS_BIT_BUSY)),
        Shl(Cond01(s.checksum_error), GBP_STATUS_BIT_SUM)))

(* ------------------------------------------------------------------ *)
(* Status reporting: a byte kept with the update macros next to a       *)
(* record packed with gbp_status_byte                                   *)
(* ------------------------------------------------------------------ *)

bitVars == <<x, pos, op, r>>
histVars == <<u1, u2>>

Init ==
    /\ X = 0
    /\ printer_status = AllFalse
    /\ ret = 0
    /\ got = NoGot
    /\ pc = "idle"
    /\ u1 = NoUpdate /\ u2 = NoUpdate
    /\ x = 0 /\ pos = 0 /\ op = "none" /\ r = 0

\* gpb_status_bit_update_<f>(X, SET); printer_status.<f> = SET;
SetStatus(f, SET) ==
    /\ X' = StatusBitUpdate(f, X, SET)
    /\ printer_status' = [printer_status EXCEPT ![f] = SET]
    /\ pc' = "idle"
    /\ UNCHANGED <<ret, got, histVars, bitVars>>

\* Variant: the call clears the flags it has reported.
Call_gbp_status_byte_clearing ==
    /\ ret' = gbp_status_byte(printer_status)
    /\ printer_status' = AllFalse
    /\ got' = NoGot
    /\ pc' = "returned"
    /\ UNCHANGED <<X, histVars, bitVars>>

\* ret = gbp_status_byte(&printer_status);
Call_gbp_status_byte ==
    /\ ret' = gbp_status_byte(printer_status)
    /\ got' = NoGot
    /\ pc' = "returned"
    /\ UNCHANGED <<X, printer_status, histVars, bitVars>>

\* The eight gpb_status_bit_getbit_<f>(ret), each on its own.
ReadBack ==
    /\ pc = "returned"
    /\ got' = [f \in Flags |-> StatusBitGet(f, ret)]
    /\ pc' = "read"
    /\ UNCHANGED <<X, printer_status, ret, histVars, bitVars>>

Next ==
    \/ \E f \in Flags, SET \in BOOLEAN : SetStatus(f, SET)
    \/ Call_gbp_status_byte
    \/ ReadBack

Spec == Init /\ [][Next]_vars

(* ------------------------------------------------------------------ *)
(* The update macros on an arbitrary status byte                        *)
(* ------------------------------------------------------------------ *)

InitUpdate ==
    /\ X \in Byte
    /\ u1 = NoUpdate /\ u2 = NoUpdate
    /\ printer_status = AllFalse
    /\ ret = 0
    /\ got = NoGot
    /\ pc = "idle"
    /\ x = 0 /\ pos = 0 /\ op = "none" /\ r = 0

\* gpb_status_bit_update_<f>(X, SET);
Update(f, SET) ==
    /\ X' = StatusBitUpdate(f, X, SET)
    /\ u2' = [flag |-> f, set |-> SET, before |-> X]
    /\ u1' = u2
    /\ UNCHANGED <<printer_status, ret, got, pc, bitVars>>

NextUpdate == \E f \in Flags, SET \in BOOLEAN : Update(f, SET)

SpecUpdate == InitUpdate /\ [][NextUpdate]_vars

(* ------------------------------------------------------------------ *)
(* The generic bit macros on every byte and position                    *)
(* ------------------------------------------------------------------ *)

InitBits ==
    /\ x \in Byte
    /\ pos \in BitPositions
    /\ op = "none"
    /\ r = 0
    /\ X = 0
    /\ u1 = NoUpdate /\ u2 = NoUpdate
    /\ printer_status = AllFalse
    /\ ret = 0
    /\ got = NoGot
    /\ pc = "idle"

SetBit ==
    /\ r' = gpb_setBit(x, pos)
    /\ op' = "setBit"
    /\ UNCHANGED <<x, pos, X, printer_status, ret, got, pc, histVars>>

UnsetBit ==
    /\ r' = gpb_unsetBit(x, pos)
    /\ op' = "unsetBit"
    /\ UNCHANGED <<x, pos, X, printer_status, ret, got, pc, histVars>>

GetBit ==
    /\ r' = gpb_getBit(x, pos)
    /\ op' = "getBit"
    /\ UNCHANGED <<x, pos, X, printer_status, ret, got, pc, histVars>>

NextBits == SetBit \/ UnsetBit \/ GetBit

SpecBits == InitBits /\ [][NextBits]_vars

(* ------------------------------------------------------------------ *)
(* Properties                                                           *)
(* ------------------------------------------------------------------ *)

\* Bit i of a non-negative number, by arithmetic.
Bit(v, i) == (v \div (2 ^ i)) % 2

\* The record whose true flags are exactly those of S.
Only(S) == [f \in Flags |-> f \in S]

\* The bit position the documentation gives each flag.
DocumentedBit ==
    [low_battery |-> 7, other_error |-> 6, paper_jam |-> 5, packet_error |-> 4,
     unprocessed_data |-> 3, print_buffer_full |-> 2, printer_busy |-> 1,
     checksum_error |-> 0]

\* The position and mask constants, by the suffix of their names.
StatusNames == {"LOWBAT", "ER2", "ER1", "ER0", "UNTRAN", "FULL", "BUSY", "SUM"}

StatusBit ==
    [LOWBAT |-> GBP_STATUS_BIT_LOWBAT, ER2 |-> GBP_STATUS_BIT_ER2,
     ER1 |-> GBP_STATUS_BIT_ER1, ER0 |-> GBP_STATUS_BIT_ER0,
     UNTRAN |-> GBP_STATUS_BIT_UNTRAN, FULL |-> GBP_STATUS_BIT_FULL,
     BUSY |-> GBP_STATUS_BIT_BUSY, SUM |-> GBP_STATUS_BIT_SUM]

StatusMask ==
    [LOWBAT |-> GBP_STATUS_MASK_LOWBAT, ER2 |-> GBP_STATUS_MASK_ER2,
     ER1 |-> GBP_STATUS_MASK_ER1, ER0 |-> GBP_STATUS_MASK_ER0,
     UNTRAN |-> GBP_STATUS_MASK_UNTRAN, FULL |-> GBP_STATUS_MASK_FULL,
     BUSY |-> GBP_STATUS_MASK_BUSY, SUM |-> GBP_STATUS_MASK_SUM]

\* The mask constant of each flag of the record.
MaskOfFlag ==
    [low_battery |-> GBP_STATUS_MASK_LOWBAT, other_error |-> GBP_STATUS_MASK_ER2,
     paper_jam |-> GBP_STATUS_MASK_ER1, packet_error |-> GBP_STATUS_MASK_ER0,
     unprocessed_data |-> GBP_STATUS_MASK_UNTRAN,
     print_buffer_full |-> GBP_STATUS_MASK_FULL,
     printer_busy |-> GBP_STATUS_MASK_BUSY, checksum_error |-> GBP_STATUS_MASK_SUM]

RECURSIVE OrOver(_, _)
\* Bitwise OR of m[e] over the elements e of S.
OrOver(m, S) ==
    IF S = {} THEN 0
    ELSE LET e == CHOOSE e \in S : TRUE
         IN  BitOr(m[e], OrOver(m, S \ {e}))

\* Number of 1 bits among the low UINT8_WIDTH bits.
PopCount(v) == Cardinality({i \in BitPositions : Bit(v, i) = 1})

\* ret holds the result of gbp_status_byte for the record as it is now.
Returned == pc \in {"returned", "read"}

\* C1: whatever the eight flags, gbp_status_byte returns a value in 0..255
\* whose bit b is 1 exactly when the flag documented for b is true
\* (low_battery 7, other_error 6, paper_jam 5, packet_error 4,
\* unprocessed_data 3, print_buffer_full 2, printer_busy 1, checksum_error 0).
C1_StatusByteBits ==
    Returned =>
        /\ ret \in Byte
        /\ \A f \in Flags : (Bit(ret, DocumentedBit[f]) = 1) <=> printer_status[f]

C1_Witness ==
    /\ pc = "returned"
    /\ printer_status = Only({"paper_jam", "printer_busy"})
    /\ ret = 34

\* C2: packing a record and reading each flag back from the byte with its
\* getbit macro gives 1 for every true flag and 0 for every false one.
C2_RoundTrip ==
    pc = "read" =>
        \A f \in Flags : got[f] = (IF printer_status[f] THEN 1 ELSE 0)

C2_Witness ==
    /\ pc = "read"
    /\ printer_status = Only({"low_battery", "paper_jam", "checksum_error"})
    /\ got.low_battery = 1 /\ got.paper_jam = 1 /\ got.checksum_error = 1
    /\ got.other_error = 0 /\ got.printer_busy = 0

\* C3: the returned byte is the bitwise OR of the GBP_STATUS_MASK_ constants
\* of exactly the true flags; so no flag gives 0x00, all flags 0xFF,
\* low_battery alone 0x80, checksum_error alone 0x01, and printer_busy with
\* unprocessed_data 0x0A.
C3_OrOfMasks ==
    Returned =>
        /\ ret = OrOver(MaskOfFlag, {f \in Flags : printer_status[f]})
        /\ (printer_status = Only({}) => ret = 0)
        /\ (printer_status = Only(Flags) => ret = 255)
        /\ (printer_status = Only({"low_battery"}) => ret = 128)
        /\ (printer_status = Only({"checksum_error"}) => ret = 1)
        /\ (printer_status = Only({"printer_busy", "unprocessed_data"}) => ret = 10)

C3_Witness ==
    /\ pc = "returned"
    /\ printer_status = Only({"printer_busy", "unprocessed_data"})
    /\ ret = 10

\* C4: the eight GBP_STATUS_BIT_ positions are pairwise distinct and are
\* exactly 0..7; each GBP_STATUS_MASK_ is 2 to the power of its position, has
\* one bit set, shares no bit with another mask, and the OR of the eight masks
\* is 0xFF.
C4_BitsAndMasks ==
    /\ \A m, n \in StatusNames : m # n => StatusBit[m] # StatusBit[n]
    /\ {StatusBit[n] : n \in StatusNames} = 0 .. 7
    /\ \A n \in StatusNames : StatusMask[n] = 2 ^ StatusBit[n]
    /\ \A n \in StatusNames : PopCount(StatusMask[n]) = 1 /\ StatusMask[n] \in Byte
    /\ \A m, n \in StatusNames : m # n => BitAnd(StatusMask[m], StatusMask[n]) = 0
    /\ OrOver(StatusMask, StatusNames) = 255
    \* the same, on the status byte: the byte is made of its parts under the
    \* eight masks, and the part under a mask is the bit at its position
    /\ OrOver([n \in StatusNames |-> BitAnd(X, StatusMask[n])], StatusNames) = X
    /\ \A n \in StatusNames :
          BitAnd(X, StatusMask[n]) = Bit(X, StatusBit[n]) * (2 ^ StatusBit[n])

\* All eight flags set: the status byte is the OR of all eight masks.
C4_Witness ==
    /\ printer_status = Only(Flags)
    /\ X = OrOver(StatusMask, StatusNames)
    /\ X = 255

\* C5: for a byte x and a position pos in 0..7, gpb_setBit gives x with bit
\* pos 1 and the other bits as in x, gpb_unsetBit gives x with bit pos 0 and
\* the other bits as in x, gpb_getBit gives 1 if bit pos of x is set and 0
\* otherwise, and the three values are within 0..255.
C5_BitMacros ==
    /\ op = "setBit" =>
          /\ r \in Byte
          /\ Bit(r, pos) = 1
          /\ \A i \in BitPositions \ {pos} : Bit(r, i) = Bit(x, i)
    /\ op = "unsetBit" =>
          /\ r \in Byte
          /\ Bit(r, pos) = 0
          /\ \A i \in BitPositions \ {pos} : Bit(r, i) = Bit(x, i)
    /\ op = "getBit" =>
          /\ r \in Byte
          /\ r = (IF Bit(x, pos) = 1 THEN 1 ELSE 0)

C5_Witness ==
    /\ op = "unsetBit"
    /\ x = 255 /\ pos = 7
    /\ r = 127

\* The command constants in the order of their definition.
Commands ==
    <<GBP_COMMAND_INIT, GBP_COMMAND_PRINT, GBP_COMMAND_DATA, GBP_COMMAND_BREAK,
      GBP_COMMAND_INQUIRY>>

C7_SyncWord ==
    /\ GBP_SYNC_WORD_0 = 136 /\ GBP_SYNC_WORD_0 \in Byte
    /\ GBP_SYNC_WORD_1 = 51 /\ GBP_SYNC_WORD_1 \in Byte
    /\ GBP_SYNC_WORD_0 * 256 + GBP_SYNC_WORD_1 = GBP_SYNC_WORD
    /\ GBP_SYNC_WORD = 34867
    \* the same, bit by bit: bit pos of the low byte of the word is bit pos of
    \* GBP_SYNC_WORD_1, bit pos of its high byte is bit pos of GBP_SYNC_WORD_0
    /\ Bit(GBP_SYNC_WORD, pos) = Bit(GBP_SYNC_WORD_1, pos)
    /\ Bit(GBP_SYNC_WORD, pos + UINT8_WIDTH) = Bit(GBP_SYNC_WORD_0, pos)
    /\ GBP_SYNC_WORD < 2 ^ (2 * UINT8_WIDTH)

\* The byte examined is the first sync byte, whose top bit reads as set.
C7_Witness ==
    /\ op = "getBit"
    /\ x = GBP_SYNC_WORD \div 256 /\ x = GBP_SYNC_WORD_0 /\ pos = 7
    /\ r = 1

C9_ByteMirrorsRecord ==
    /\ X \in Byte
    /\ X = gbp_status_byte(printer_status)

C9_Witness ==
    /\ pc = "idle"
    /\ printer_status =
          Only({"low_battery", "paper_jam", "print_buffer_full", "checksum_error"})
    /\ X = 165

\* C10: an update of a flag with SET makes that flag's getbit equal to SET
\* and leaves the getbit of the seven other flags as before; the same update
\* twice gives what it gives once, and updates of two different flags give
\* the same byte in either order.
C10_UpdateGetbit ==
    /\ X \in Byte
    /\ u2.flag # "none" =>
          /\ StatusBitGet(u2.flag, X) = (IF u2.set THEN 1 ELSE 0)
          /\ \A g \in Flags \ {u2.flag} :
                StatusBitGet(g, X) = StatusBitGet(g, u2.before)
    /\ (u1.flag # "none" /\ u1.flag = u2.flag /\ u1.set = u2.set) =>
          X = u2.before
    /\ (u1.flag # "none" /\ u1.flag # u2.flag) =>
          X = StatusBitUpdate(u1.flag,
                              StatusBitUpdate(u2.flag, u1.before, u2.set),
                              u1.set)

C10_Witness ==
    /\ u1 = [flag |-> "low_battery", set |-> TRUE, before |-> 15]
    /\ u2 = [flag |-> "checksum_error", set |-> FALSE, before |-> 143]
    /\ X = 142

====
